---- MODULE Spec2Model ----
(***************************************************************************)
(* A model of the Reclame Aqui scraper (src/src/scraper.py, src/src/api.py). *)
(*                                                                         *)
(* Text (markdown, URLs, header values) is a sequence of tokens.  A token  *)
(* is one character, or one fixed literal of the source's regular          *)
(* expressions written as a single token (ID_LABEL for "**ID:**", HOST for *)
(* "https://www.reclameaqui.com.br/", ...).  The regular expressions are   *)
(* transcribed item by item and run by a backtracking matcher with         *)
(* Python's leftmost, greedy semantics.                                    *)
(***************************************************************************)
EXTENDS Integers, Sequences, FiniteSets, TLC

VARIABLES
    dMarkdown,   \* scrape_complaint: what the fetch of the detail page gives
    dUrl,        \* scrape_complaint: the url argument
    dResult,     \* scrape_complaint: Pending, then its return value
    uLinks,      \* get_complaint_urls_from_markdown: the links of the markdown
    uSlug,       \* get_complaint_urls_from_markdown: company_slug
    uLimit,      \* get_complaint_urls_from_markdown: limit
    uResult,     \* get_complaint_urls_from_markdown: Pending, then the urls
    sLinks,      \* search_company: the links of the fetched search page
    sResult,     \* search_company: Pending, then the companies
    apiKey,      \* API_KEY, read from the environment at start
    endpoint,    \* the request: "complaints" or "search"
    header,      \* the request: its X-API-Key header
    limit,       \* the request: limit
    pc,          \* where the request is
    auth,        \* what verify_api_key gave
    page,        \* get_complaint_urls: page
    urls,        \* get_complaint_urls: urls, then the urls get_complaints holds
    requests,    \* the fetches made so far, in order
    log,         \* what the logger recorded of each fetch of requests
    probe,       \* get_total_pages: Pending, then what its fetch gave
    idx,         \* get_complaints: the position of its loop over urls
    complaints,  \* get_complaints: complaints
    result,      \* what get_complaints or search_company gave the endpoint
    response     \* the response of the endpoint

detailVars == <<dMarkdown, dUrl, dResult>>
urlsVars == <<uLinks, uSlug, uLimit, uResult>>
searchVars == <<sLinks, sResult>>
requestVars == <<apiKey, endpoint, header, limit, pc, auth, page, urls, requests, log,
                 probe, idx, complaints, result, response>>
vars == <<detailVars, urlsVars, searchVars, requestVars>>

(***************************************************************************)
(* Tokens                                                                  *)
(***************************************************************************)
NL == "\n"
SP == " "
\* A run of ordinary letters one short of the status length limit.
LONG == "x49"
Whitespace == {SP, NL}

\* Values are records told apart by kind: the python value None, a value not
\* computed yet, a value returned, and the three things _scrape_url_markdown
\* can give.
None == [kind |-> "None"]
Pending == [kind |-> "pending"]
Returned(v) == [kind |-> "returned", value |-> v]
Raised == [kind |-> "ScraperError"]          \* raise ScraperError (lines 72-74)
NoMarkdown == [kind |-> "NoneMarkdown"]      \* result.markdown is None (line 66)
Text(s) == [kind |-> "str", text |-> s]      \* a str, "" included (lines 66-71)

Strs(A, n) == UNION {[1..k -> A] : k \in 0..n}

(***************************************************************************)
(* re: a regular expression is a sequence of items.  An item is an anchor  *)
(* or a character class with a quantifier (min, many) and the number of    *)
(* the capture group it lies in (0: none).                                 *)
(***************************************************************************)
Item(neg, set, min, many, grp) ==
    [kind |-> "cls", neg |-> neg, set |-> set, min |-> min, many |-> many, grp |-> grp]
Anchor(k) == [kind |-> k, neg |-> FALSE, set |-> {}, min |-> 0, many |-> FALSE, grp |-> 0]

Lit(t)          == Item(FALSE, {t}, 1, FALSE, 0)     \* t
LitIn(t, g)     == Item(FALSE, {t}, 1, FALSE, g)     \* t, inside group g
AnyIn(g)        == Item(TRUE, {NL}, 1, FALSE, g)     \* . , inside group g
Opt(t)          == Item(FALSE, {t}, 0, FALSE, 0)     \* t?
Plus(set, g)    == Item(FALSE, set, 1, TRUE, g)      \* [set]+
Star(set, g)    == Item(FALSE, set, 0, TRUE, g)      \* [set]*
NotPlus(set, g) == Item(TRUE, set, 1, TRUE, g)       \* [^set]+
NotStar(set, g) == Item(TRUE, set, 0, TRUE, g)       \* [^set]*
BOL == Anchor("bol")     \* ^ under re.MULTILINE
EOL == Anchor("eol")     \* $ under re.MULTILINE
END == Anchor("end")     \* $ without re.MULTILINE

InClass(c, it) == (c \in it.set) # it.neg

RECURSIVE Run(_, _, _)
Run(it, s, p) ==
    IF p > Len(s) \/ ~InClass(s[p], it) THEN 0 ELSE 1 + Run(it, s, p + 1)

MaxRep(it, s, p) ==
    IF it.many THEN Run(it, s, p)
    ELSE IF p <= Len(s) /\ InClass(s[p], it) THEN 1 ELSE 0

NoCap == [g \in 1..3 |-> <<0, 0>>]
NoMatch == [ok |-> FALSE, b |-> 0, e |-> 0, cap |-> NoCap]

\* Group g spans [start, end) of the text.
Capture(cap, g, p, k) ==
    IF g = 0 THEN cap
    ELSE [cap EXCEPT ![g] = IF @ = <<0, 0>> THEN <<p, p + k>> ELSE <<@[1], p + k>>]

RECURSIVE MatchFrom(_, _, _, _, _)
RECURSIVE TryRep(_, _, _, _, _, _)
\* Items i.. of re against s from position p: the first match in backtracking order.
MatchFrom(re, i, s, p, cap) ==
    IF i > Len(re) THEN [ok |-> TRUE, b |-> 0, e |-> p, cap |-> cap]
    ELSE CASE re[i].kind = "bol" ->
                IF p = 1 \/ s[p - 1] = NL
                THEN MatchFrom(re, i + 1, s, p, cap) ELSE NoMatch
           [] re[i].kind = "eol" ->
                IF p = Len(s) + 1 \/ s[p] = NL
                THEN MatchFrom(re, i + 1, s, p, cap) ELSE NoMatch
           [] re[i].kind = "end" ->
                IF p = Len(s) + 1 \/ (p = Len(s) /\ s[p] = NL)
                THEN MatchFrom(re, i + 1, s, p, cap) ELSE NoMatch
           [] OTHER -> TryRep(re, i, s, p, cap, MaxRep(re[i], s, p))

\* A greedy quantifier: the longest repetition first, then one less, down to min.
TryRep(re, i, s, p, cap, k) ==
    IF k < re[i].min THEN NoMatch
    ELSE LET r == MatchFrom(re, i + 1, s, p + k, Capture(cap, re[i].grp, p, k))
         IN  IF r.ok THEN r ELSE TryRep(re, i, s, p, cap, k - 1)

RECURSIVE SearchFrom(_, _, _)
SearchFrom(re, s, p) ==
    IF p > Len(s) + 1 THEN NoMatch
    ELSE LET r == MatchFrom(re, 1, s, p, NoCap)
         IN  IF r.ok THEN [r EXCEPT !.b = p] ELSE SearchFrom(re, s, p + 1)

re_search(re, s) == SearchFrom(re, s, 1)

RECURSIVE FindFrom(_, _, _)
FindFrom(re, s, p) ==
    LET r == SearchFrom(re, s, p)
    IN  IF ~r.ok THEN <<>>
        ELSE <<r>> \o FindFrom(re, s, IF r.e > r.b THEN r.e ELSE r.e + 1)

\* The matches of re in s, left to right, not overlapping.
re_findall(re, s) == FindFrom(re, s, 1)

group(s, r, g) == SubSeq(s, r.cap[g][1], r.cap[g][2] - 1)

RECURSIVE lstrip(_)
lstrip(s) == IF s # <<>> /\ Head(s) \in Whitespace THEN lstrip(Tail(s)) ELSE s
RECURSIVE rstrip(_)
rstrip(s) ==
    IF s # <<>> /\ s[Len(s)] \in Whitespace THEN rstrip(SubSeq(s, 1, Len(s) - 1)) ELSE s
strip(s) == rstrip(lstrip(s))

Contains(s, t) == \E i \in 1..Len(s) : s[i] = t

(***************************************************************************)
(* scrape_complaint                                                        *)
(***************************************************************************)
HASH == "#"
LETTER == "t"
DIGIT == "7"
Letters == {LETTER, "a", "b", "c", "d", "k", "w", "x"}      \* of [a-zA-Z]
Digits == {DIGIT, "0", "1", "2", "5"}                       \* of \d and [0-9]
LBRACKET == "["
UNDERSCORE == "_"
SLASH == "/"
DASH == "-"
ID_LABEL == "**ID:**"
IMG == "![Reclamacao](u)"               \* an image whose alt text starts with Reclamacao
STATUS_LABEL == "Status da reclamacao:"

SemTitulo == <<"S", "e", "m", SP, "t", "i", "t", "u", "l", "o">>
Desconhecido == <<"Desconhecido">>
StatusLimit == 50

\* len() of a text: the characters its tokens stand for.
Width(t) ==
    CASE t = LONG -> StatusLimit - 1
      [] t = IMG -> 16
      [] t = STATUS_LABEL -> 21
      [] t = ID_LABEL -> 7
      [] t = "lista-reclamacoes" -> 17
      [] t = "**" -> 2
      [] OTHER -> 1

RECURSIVE len(_)
len(s) == IF s = <<>> THEN 0 ELSE Width(Head(s)) + len(Tail(s))

\* r'^#\s+(.+)$' with re.MULTILINE
TitleRe == <<BOL, Lit(HASH), Plus(Whitespace, 0), NotPlus({NL}, 1), EOL>>
\* r'\*\*ID:\*\*\s*(\d+)'
IdRe == <<Lit(ID_LABEL), Star(Whitespace, 0), Plus(Digits, 1)>>
\* (a variant of UrlIdRe that allows no slash after the segment)
UrlIdRe_NoSlash == <<Lit(UNDERSCORE), Plus(Letters \cup Digits, 1), END>>
\* r'_([a-zA-Z0-9]+)/?$'
UrlIdRe == <<Lit(UNDERSCORE), Plus(Letters \cup Digits, 1), Opt(SLASH), END>>
\* r'!\[Reclamação[^\]]*\]\([^)]+\)\s*\n+([^\n\[]+)'
\* r'Status da reclamação:\s*\n+[^\n]*\n+([^\n]+)'
status_patterns ==
    << <<Lit(IMG), Star(Whitespace, 0), Plus({NL}, 0), NotPlus({NL, LBRACKET}, 1)>>,
       <<Lit(STATUS_LABEL), Star(Whitespace, 0), Plus({NL}, 0), NotStar({NL}, 0),
         Plus({NL}, 0), NotPlus({NL}, 1)>> >>

\* The candidate a status pattern gives: None, or group 1 stripped.
potential_status(pattern, markdown) ==
    LET status_match == re_search(pattern, markdown)
    IN  IF status_match.ok THEN Text(strip(group(markdown, status_match, 1))) ELSE None

StatusOk(potential) == potential # <<>> /\ len(potential) < StatusLimit

\* (a variant of StatusLoop that stops at the first pattern that matches)
StatusLoop_BreakOnMatch(markdown, k) ==
    LET c1 == potential_status(status_patterns[1], markdown)
        c2 == potential_status(status_patterns[2], markdown)
    IN  IF c1 # None THEN (IF StatusOk(c1.text) THEN c1.text ELSE Desconhecido)
        ELSE IF c2 # None /\ StatusOk(c2.text) THEN c2.text ELSE Desconhecido

RECURSIVE StatusLoop(_, _)
\* for pattern in status_patterns: ... break
StatusLoop(markdown, k) ==
    IF k > Len(status_patterns) THEN Desconhecido
    ELSE LET potential == potential_status(status_patterns[k], markdown)
         IN  IF potential # None /\ StatusOk(potential.text) THEN potential.text
             ELSE StatusLoop(markdown, k + 1)

extract_title(markdown) ==
    LET title_match == re_search(TitleRe, markdown)
    IN  IF title_match.ok THEN strip(group(markdown, title_match, 1)) ELSE SemTitulo

extract_id(markdown, url) ==
    LET id_match == re_search(IdRe, markdown)
        complaint_id == IF id_match.ok THEN group(markdown, id_match, 1) ELSE <<>>
        url_id_match == re_search(UrlIdRe, url)
    IN  IF complaint_id = <<>>
        THEN IF url_id_match.ok THEN group(url, url_id_match, 1) ELSE complaint_id
        ELSE complaint_id

\* The record is dropped when the title is missing or is the placeholder.
TitleMissing(title) == title = <<>> \/ title = SemTitulo

\* scrape_complaint(url), fetched being what _scrape_url_markdown(url) gives.
scrape_complaint(fetched, url) ==
    IF fetched.kind = "ScraperError" THEN None                   \* except ScraperError
    ELSE IF fetched.kind = "NoneMarkdown" \/ fetched.text = <<>> THEN None   \* if not markdown
    ELSE LET title == extract_title(fetched.text)
         IN  IF TitleMissing(title) THEN None
             ELSE [kind |-> "Complaint",
                   id |-> extract_id(fetched.text, url),
                   title |-> title,
                   status |-> StatusLoop(fetched.text, 1),
                   url |-> url]

(***************************************************************************)
(* get_complaint_urls_from_markdown                                        *)
(***************************************************************************)
LB == "["
RB == "]"
LP == "("
RP == ")"
DOT == "."
HOST == "https://www.reclameaqui.com.br/"
OTHER_HOST == "https://example.org/"

\* One item per character of company_slug, put into the pattern as it is: a
\* "." of the slug is the regular expression's "." (other metacharacters are
\* not among the slugs of this model).
RECURSIVE SlugItems(_, _)
SlugItems(company_slug, g) ==
    IF company_slug = <<>> THEN <<>>
    ELSE <<IF Head(company_slug) = DOT THEN AnyIn(g) ELSE LitIn(Head(company_slug), g)>>
         \o SlugItems(Tail(company_slug), g)

\* rf'\[([^\]]+)\]\((https://www\.reclameaqui\.com\.br/{company_slug}/[^)]+)\)'
UrlPattern(company_slug) ==
    <<Lit(LB), NotPlus({RB}, 1), Lit(RB), Lit(LP), LitIn(HOST, 2)>>
    \o SlugItems(company_slug, 2)
    \o <<LitIn(SLASH, 2), NotPlus({RP}, 2), Lit(RP)>>

InSeq(x, seq) == \E i \in 1..Len(seq) : seq[i] = x

RECURSIVE UrlLoop(_, _, _, _, _)
\* for title, url in matches: ... (lines 88-94); found is the list urls, cap the limit
UrlLoop(markdown, matches, i, found, cap) ==
    IF i > Len(matches) THEN found
    ELSE LET url == group(markdown, matches[i], 2)
         IN  IF Contains(url, UNDERSCORE) /\ ~InSeq(url, found)
             THEN IF Len(found) + 1 >= cap THEN Append(found, url)
                  ELSE UrlLoop(markdown, matches, i + 1, Append(found, url), cap)
             ELSE UrlLoop(markdown, matches, i + 1, found, cap)

get_complaint_urls_from_markdown(markdown, company_slug, cap) ==
    UrlLoop(markdown, re_findall(UrlPattern(company_slug), markdown), 1, <<>>, cap)

\* A markdown link [label](host seg / tail) as text, and a page of links, one a line.
LinkUrl(l) == <<l.host>> \o l.seg \o <<SLASH>> \o l.tail
RenderLink(l) == <<LB>> \o l.label \o <<RB, LP>> \o LinkUrl(l) \o <<RP>>
RECURSIVE RenderLinks(_)
RenderLinks(ls) ==
    IF ls = <<>> THEN <<>> ELSE RenderLink(Head(ls)) \o <<NL>> \o RenderLinks(Tail(ls))

(***************************************************************************)
(* search_company                                                          *)
(***************************************************************************)
EMPRESA == "empresa/"
LISTA == "lista-reclamacoes"
STARS == "**"
BACKSLASH == "\\"
PERCENT == "%"
SearchLimit == 10

\* r'\[([^\]]+)\]\((https://www\.reclameaqui\.com\.br/empresa/([^/\)]+)/?)\)'
\* (group 2, the url, is not used by the code and not recorded)
SearchPattern ==
    <<Lit(LB), NotPlus({RB}, 1), Lit(RB), Lit(LP), Lit(HOST), Lit(EMPRESA),
      NotPlus({SLASH, RP}, 3), Opt(SLASH), Lit(RP)>>

StartsWith(s, pre) == Len(s) >= Len(pre) /\ SubSeq(s, 1, Len(pre)) = pre

\* lines 409-411
SlugInvalid(slug) ==
    \/ Contains(slug, LISTA)
    \/ len(slug) <= 1
    \/ StartsWith(slug, <<"r", "a", DASH>>)

\* lines 418-422
NameInvalid(clean_name) ==
    \/ clean_name = <<>>
    \/ len(clean_name) <= 2
    \/ Contains(clean_name, STARS)
    \/ Contains(clean_name, BACKSLASH)
    \/ Contains(clean_name, PERCENT)

\* A dict is the sequence of its items in insertion order.
DictHas(d, k) == \E i \in 1..Len(d) : d[i].slug = k
DictGet(d, k) == d[CHOOSE i \in 1..Len(d) : d[i].slug = k].name
\* (a variant of DictSet that moves an old key to the end)
DictSet_MoveToEnd(d, k, v) ==
    LET NotK(item) == item.slug # k
    IN  Append(SelectSeq(d, NotK), [slug |-> k, name |-> v])

\* d[k] = v: a new key goes last, an old key keeps its place.
DictSet(d, k, v) ==
    IF DictHas(d, k)
    THEN [i \in 1..Len(d) |-> IF d[i].slug = k THEN [slug |-> k, name |-> v] ELSE d[i]]
    ELSE Append(d, [slug |-> k, name |-> v])

\* (a variant of Better that lets a label of the same length replace the name)
Better_OrEqual(slug_to_name, slug, clean_name) ==
    ~DictHas(slug_to_name, slug) \/ len(clean_name) >= len(DictGet(slug_to_name, slug))

\* line 426
Better(slug_to_name, slug, clean_name) ==
    ~DictHas(slug_to_name, slug) \/ len(clean_name) > len(DictGet(slug_to_name, slug))

RECURSIVE SearchLoop(_, _, _, _)
\* for name, url, slug in matches: ... (lines 407-427)
SearchLoop(markdown, matches, i, slug_to_name) ==
    IF i > Len(matches) THEN slug_to_name
    ELSE LET name == group(markdown, matches[i], 1)
             slug == group(markdown, matches[i], 3)
             clean_name == strip(name)
         IN  IF SlugInvalid(slug) THEN SearchLoop(markdown, matches, i + 1, slug_to_name)
             ELSE IF NameInvalid(clean_name)
                  THEN SearchLoop(markdown, matches, i + 1, slug_to_name)
             ELSE IF Better(slug_to_name, slug, clean_name)
                  THEN SearchLoop(markdown, matches, i + 1,
                                  DictSet(slug_to_name, slug, clean_name))
             ELSE SearchLoop(markdown, matches, i + 1, slug_to_name)

FirstN(seq, n) == SubSeq(seq, 1, IF Len(seq) < n THEN Len(seq) ELSE n)

\* search_company(query), fetched being what firecrawl.scrape gave for the page.
search_company(fetched) ==
    IF fetched.kind = "ScraperError" THEN <<>>                    \* except Exception
    ELSE IF fetched.kind = "NoneMarkdown" \/ fetched.text = <<>> THEN <<>>   \* if not markdown
    ELSE FirstN(SearchLoop(fetched.text, re_findall(SearchPattern, fetched.text), 1, <<>>),
                SearchLimit)

(***************************************************************************)
(* get_total_pages                                                         *)
(***************************************************************************)
DE == "de"
MaxTotalPages == 50

\* r'(\d+)\s+de\s+(\d+)'
TotalPagesRe ==
    <<Plus(Digits, 1), Plus(Whitespace, 0), Lit(DE), Plus(Whitespace, 0), Plus(Digits, 2)>>

DigitValue(c) ==
    CASE c = "0" -> 0 [] c = "1" -> 1 [] c = "2" -> 2 [] c = "5" -> 5 [] c = "7" -> 7

RECURSIVE int(_)
int(digits) ==
    IF digits = <<>> THEN 0
    ELSE 10 * int(SubSeq(digits, 1, Len(digits) - 1)) + DigitValue(digits[Len(digits)])

Min(a, b) == IF a < b THEN a ELSE b

\* (a variant of get_total_pages that returns the number of the marker as it is)
get_total_pages_NoCap(fetched) ==
    IF fetched.kind # "str" THEN 1
    ELSE LET match == re_search(TotalPagesRe, fetched.text)
         IN  IF match.ok THEN int(group(fetched.text, match, 2)) ELSE 1

\* get_total_pages(company_slug), fetched being what _scrape_url_markdown gave.
get_total_pages(fetched) ==
    IF fetched.kind # "str" THEN 1                    \* except Exception (a None
                                                      \* markdown makes re.search raise)
    ELSE LET match == re_search(TotalPagesRe, fetched.text)
         IN  IF match.ok THEN Min(int(group(fetched.text, match, 2)), MaxTotalPages) ELSE 1

(***************************************************************************)
(* api.py: verify_api_key and the two endpoints                            *)
(***************************************************************************)
NON_ASCII == "e-acute"

Truthy(v) == v # None /\ v.text # <<>>

Pass(v) == [kind |-> "pass", value |-> v]
HTTPException(code) == [kind |-> "HTTPException", code |-> code]
TypeError == [kind |-> "TypeError"]

\* (a variant of verify_api_key that answers a missing key as it answers a wrong one)
verify_api_key_MissingAsWrong(API_KEY, api_key) ==
    IF ~Truthy(API_KEY) THEN Pass(<<"dev-mode">>)
    ELSE IF ~Truthy(api_key) THEN HTTPException(403)
    ELSE IF Contains(api_key.text, NON_ASCII) \/ Contains(API_KEY.text, NON_ASCII)
         THEN TypeError
    ELSE IF api_key.text # API_KEY.text THEN HTTPException(403)
    ELSE Pass(api_key.text)

\* verify_api_key(api_key) with the module's API_KEY.  secrets.compare_digest
\* raises TypeError for a str that is not ASCII.
verify_api_key(API_KEY, api_key) ==
    IF ~Truthy(API_KEY) THEN Pass(<<"dev-mode">>)
    ELSE IF ~Truthy(api_key) THEN HTTPException(401)
    ELSE IF Contains(api_key.text, NON_ASCII) \/ Contains(API_KEY.text, NON_ASCII)
         THEN TypeError
    ELSE IF api_key.text # API_KEY.text THEN HTTPException(403)
    ELSE Pass(api_key.text)

Response(code, body) == [code |-> code, body |-> body]

\* (a variant of get_company_complaints that returns an empty result as it is)
get_company_complaints_NoEmptyCheck(res) ==
    IF res.kind = "TypeError" THEN Response(500, None) ELSE Response(200, res.value)

\* The body of get_company_complaints after its call of get_complaints: result
\* is what the call returned, or TypeError when it raised.
get_company_complaints(res) ==
    IF res.kind = "TypeError" THEN Response(500, None)         \* except Exception
    ELSE IF res.value.complaints = <<>> THEN Response(404, None)
    ELSE Response(200, res.value)

\* The body of search_companies after its call of search_company.
search_companies(res) ==
    IF res.value = <<>> THEN Response(404, None) ELSE Response(200, res.value)

\* The return of get_complaints (the name of the company is left out).
ComplaintsResponse(company_slug, found, total_pages) ==
    [company |-> [slug |-> company_slug, total_complaints |-> total_pages * 10],
     complaints |-> found,
     total_returned |-> Len(found)]

MaxPages == 10

(***************************************************************************)
(* Inputs of scrape_complaint                                              *)
(***************************************************************************)
MaxTitleLen == 6
MaxIdLen == 4
MaxUrlLen == 4
MaxStatusLen == 4
MaxStatusLines == 5

RECURSIVE JoinLines(_)
JoinLines(ls) ==
    IF ls = <<>> THEN <<>>
    ELSE IF Len(ls) = 1 THEN ls[1]
    ELSE ls[1] \o <<NL>> \o JoinLines(Tail(ls))

Heading == <<HASH, SP, LETTER, NL>>
PlainUrl == <<LETTER, DASH, LETTER>>
DetailUrls == {<<LETTER, UNDERSCORE, LETTER, DIGIT>>, <<LETTER, UNDERSCORE, DIGIT, SLASH>>, PlainUrl}
StatusLines == {<<>>, <<IMG>>, <<STATUS_LABEL>>, <<LETTER>>, <<LONG, LETTER>>, <<SP, LETTER, SP>>}

TitleInputs ==
    {<<Text(m), PlainUrl>> : m \in Strs({HASH, SP, NL, LETTER}, MaxTitleLen)}
    \cup {<<Text(<<HASH, SP>> \o SemTitulo), PlainUrl>>, <<Raised, PlainUrl>>,
          <<NoMarkdown, PlainUrl>>}
IdInputs ==
    {<<Text(Heading \o m), u>> :
        m \in Strs({ID_LABEL, DIGIT, SP, NL, LETTER}, MaxIdLen), u \in DetailUrls}
UrlInputs ==
    {<<Text(m), u>> :
        m \in {Heading, Heading \o <<ID_LABEL, SP, DIGIT>>, Heading \o <<ID_LABEL, LETTER>>},
        u \in Strs({UNDERSCORE, LETTER, DIGIT, SLASH, DASH}, MaxUrlLen)}
StatusInputs ==
    {<<Text(Heading \o m), PlainUrl>> :
        m \in Strs({IMG, STATUS_LABEL, NL, SP, LETTER, LONG, LBRACKET}, MaxStatusLen)}
    \cup {<<Text(Heading \o JoinLines(ls)), PlainUrl>> :
            ls \in Strs(StatusLines, MaxStatusLines)}

DetailInputs == TitleInputs \cup IdInputs \cup UrlInputs \cup StatusInputs

(***************************************************************************)
(* Inputs of get_complaint_urls_from_markdown                              *)
(***************************************************************************)
MaxLinks == 3
MaxCap == 3

Slugs == {<<"a", "b">>, <<"a", DOT>>}
UrlLinks ==
    [label : {<<LETTER>>}, host : {HOST}, seg : Slugs,
     tail : {<<"c", UNDERSCORE, "1">>, <<"c", UNDERSCORE, "2">>, <<"d">>}]
    \cup {[label |-> <<LETTER>>, host |-> OTHER_HOST, seg |-> <<"a", "b">>,
           tail |-> <<"c", UNDERSCORE, "1">>]}

(***************************************************************************)
(* Inputs of search_company                                                *)
(***************************************************************************)
MaxSearchLinks == 3

SearchLabels ==
    {<<"A", "B", "C">>, <<"A", "B", "C", "D">>, <<"A", "B", "C", "E">>,
     <<SP, "A", "B", "F", SP, SP>>, <<"A", "B">>, <<"A", STARS, "B", "C", "D">>}
SearchLinks ==
    [label : SearchLabels, path : {<<"n", "u", SLASH>>, <<"i", "t">>}]
    \cup [label : {<<"A", "B", "C", "D">>},
          path : {<<"n">>, <<"r", "a", DASH, "x">>, <<"x", LISTA>>,
                  <<"n", "u", SLASH, LISTA, SLASH>>}]

\* n links to n different companies, and the same with a longer label for the
\* first company after them.
ManyLinks(n) == [i \in 1..n |-> [label |-> <<"A", "B", "C">>, path |-> <<"k", ToString(i)>>]]
ManyLinkPages ==
    {ManyLinks(n) : n \in SearchLimit..(SearchLimit + 2)}
    \cup {ManyLinks(n) \o <<[label |-> <<"A", "B", "C", "D">>, path |-> <<"k", "1">>]>> :
            n \in SearchLimit..(SearchLimit + 2)}

RenderSearchLink(l) == <<LB>> \o l.label \o <<RB, LP, HOST, EMPRESA>> \o l.path \o <<RP>>
RECURSIVE RenderSearchLinks(_)
RenderSearchLinks(ls) ==
    IF ls = <<>> THEN <<>>
    ELSE RenderSearchLink(Head(ls)) \o <<NL>> \o RenderSearchLinks(Tail(ls))

(***************************************************************************)
(* The three specifications of one call of a function leave the variables  *)
(* of the others at rest.                                                  *)
(***************************************************************************)
DetailIdle == dMarkdown = None /\ dUrl = <<>> /\ dResult = None
UrlsIdle == uLinks = <<>> /\ uSlug = <<>> /\ uLimit = 0 /\ uResult = None
SearchIdle == sLinks = None /\ sResult = None
RequestIdle ==
    /\ apiKey = None /\ endpoint = "none" /\ header = None /\ limit = 0 /\ pc = "idle"
    /\ auth = None /\ page = 0 /\ urls = <<>> /\ requests = <<>> /\ idx = 0
    /\ log = <<>> /\ probe = None
    /\ complaints = <<>> /\ result = None /\ response = None

(***************************************************************************)
(* SpecDetail: one call of scrape_complaint on any of the inputs           *)
(***************************************************************************)
InitDetail ==
    /\ \E in \in DetailInputs : dMarkdown = in[1] /\ dUrl = in[2]
    /\ dResult = Pending
    /\ UrlsIdle /\ SearchIdle /\ RequestIdle

ScrapeComplaint ==
    /\ dResult = Pending
    /\ dResult' = scrape_complaint(dMarkdown, dUrl)
    /\ UNCHANGED <<dMarkdown, dUrl, urlsVars, searchVars, requestVars>>

NextDetail == ScrapeComplaint

SpecDetail == InitDetail /\ [][NextDetail]_vars

(***************************************************************************)
(* SpecUrls: one call of get_complaint_urls_from_markdown                  *)
(***************************************************************************)
InitUrls ==
    /\ uLinks \in Strs(UrlLinks, MaxLinks)
    /\ uSlug \in Slugs
    /\ uLimit \in 1..MaxCap
    /\ uResult = Pending
    /\ DetailIdle /\ SearchIdle /\ RequestIdle

ExtractUrls ==
    /\ uResult = Pending
    /\ uResult' = Returned(get_complaint_urls_from_markdown(RenderLinks(uLinks), uSlug, uLimit))
    /\ UNCHANGED <<uLinks, uSlug, uLimit, detailVars, searchVars, requestVars>>

NextUrls == ExtractUrls

SpecUrls == InitUrls /\ [][NextUrls]_vars

(***************************************************************************)
(* SpecSearch: one call of search_company                                  *)
(***************************************************************************)
InitSearch ==
    /\ sLinks \in {Raised, NoMarkdown}
                 \cup {Returned(ls) : ls \in Strs(SearchLinks, MaxSearchLinks) \cup ManyLinkPages}
    /\ sResult = Pending
    /\ DetailIdle /\ UrlsIdle /\ RequestIdle

\* The page the fetch gives: the markdown of the links.
SearchPage(links) == IF links.kind = "returned" THEN Text(RenderSearchLinks(links.value)) ELSE links

SearchCompany ==
    /\ sResult = Pending
    /\ sResult' = Returned(search_company(SearchPage(sLinks)))
    /\ UNCHANGED <<sLinks, detailVars, urlsVars, requestVars>>

NextSearch == SearchCompany

SpecSearch == InitSearch /\ [][NextSearch]_vars

(***************************************************************************)
(* Claims about scrape_complaint (SpecDetail)                              *)
(***************************************************************************)
IsComplaint(r) == r.kind = "Complaint"
HasText(f) == f.kind = "str"

RECURSIVE SplitLines(_)
SplitLines(s) ==
    IF ~Contains(s, NL) THEN <<s>>
    ELSE LET i == CHOOSE j \in 1..Len(s) : s[j] = NL /\ \A k \in 1..(j - 1) : s[k] # NL
         IN  <<SubSeq(s, 1, i - 1)>> \o SplitLines(SubSeq(s, i + 1, Len(s)))

\* A level-one heading line: "#" alone, or "#" and a space before the text.
IsHeadingLine(l) == l # <<>> /\ l[1] = HASH /\ (Len(l) = 1 \/ l[2] = SP)
HeadingLines(md) == SelectSeq(SplitLines(md), IsHeadingLine)
HeadingText(l) == strip(Tail(l))

\* C6: a markdown with no heading line gives no record; a record's title is
\* the non-empty text of the first heading line, never the placeholder; and a
\* markdown whose first heading line has a title gives a record whatever its
\* other fields are.
C6_TitleFromFirstHeading ==
    dResult # Pending =>
        LET hs == IF HasText(dMarkdown) THEN HeadingLines(dMarkdown.text) ELSE <<>>
        IN  /\ hs = <<>> => dResult = None
            /\ IsComplaint(dResult) =>
                    /\ dResult.title # <<>>
                    /\ dResult.title # SemTitulo
                    /\ hs # <<>>
                    /\ dResult.title = HeadingText(hs[1])
            /\ (hs # <<>> /\ ~TitleMissing(HeadingText(hs[1]))) => IsComplaint(dResult)

\* The labeled ID field of a markdown: the digits after the first "**ID:**"
\* label that has digits after it (white space may come between); <<>> if none.
LabeledId(md) ==
    LET DigitsAt(p) == {n \in 1..(Len(md) - p + 1) : \A k \in p..(p + n - 1) : md[k] \in Digits}
        ValueAt(i) ==
            {p \in (i + 1)..Len(md) :
                /\ md[p] \in Digits
                /\ \A k \in (i + 1)..(p - 1) : md[k] \in Whitespace}
        Fields == {i \in 1..Len(md) : md[i] = ID_LABEL /\ ValueAt(i) # {}}
    IN  IF Fields = {} THEN <<>>
        ELSE LET i == CHOOSE j \in Fields : \A k \in Fields : j <= k
                 p == CHOOSE q \in ValueAt(i) : TRUE
                 n == CHOOSE m \in DigitsAt(p) : \A k \in DigitsAt(p) : k <= m
             IN  SubSeq(md, p, p + n - 1)

\* The trailing id segment of a url: the letters and digits after its last
\* underscore when nothing but one optional slash follows them; <<>> if none.
TrailingSegment(u) ==
    LET body == IF u # <<>> /\ u[Len(u)] = SLASH THEN SubSeq(u, 1, Len(u) - 1) ELSE u
        Tails == {n \in 1..Len(body) :
                    \A k \in (Len(body) - n + 1)..Len(body) : body[k] \in Letters \cup Digits}
    IN  IF Tails = {} THEN <<>>
        ELSE LET n == CHOOSE m \in Tails : \A k \in Tails : k <= m
             IN  IF n < Len(body) /\ body[Len(body) - n] = UNDERSCORE
                 THEN SubSeq(body, Len(body) - n + 1, Len(body)) ELSE <<>>

\* C7: with no labeled ID field in the markdown and a url ending in "_" and a
\* segment of letters and digits (and at most one slash), the id of the record
\* is that segment; with a labeled ID field the id is its value, whatever the url.
C7_IdFromMarkdownElseUrl ==
    IsComplaint(dResult) =>
        LET labeled == LabeledId(dMarkdown.text)
        IN  /\ labeled # <<>> => dResult.id = labeled
            /\ (labeled = <<>> /\ TrailingSegment(dUrl) # <<>>) =>
                    dResult.id = TrailingSegment(dUrl)

C7_Witness ==
    /\ IsComplaint(dResult)
    /\ LabeledId(dMarkdown.text) = <<>>
    /\ Contains(dMarkdown.text, ID_LABEL)
    /\ dUrl # <<>> /\ dUrl[Len(dUrl)] = SLASH
    /\ dResult.id = <<LETTER, DIGIT>>

\* A candidate qualifies when it is not empty and shorter than 50 characters.
Qualifies(c) == c # None /\ c.text # <<>> /\ len(c.text) <= StatusLimit - 1

\* C8: the status of a record is the first pattern's candidate when that
\* qualifies, else the second pattern's when that qualifies, else "Desconhecido"
\* (so also when neither pattern matches).
C8_StatusFirstQualifying ==
    IsComplaint(dResult) =>
        LET c1 == potential_status(status_patterns[1], dMarkdown.text)
            c2 == potential_status(status_patterns[2], dMarkdown.text)
        IN  dResult.status = IF Qualifies(c1) THEN c1.text
                             ELSE IF Qualifies(c2) THEN c2.text
                             ELSE Desconhecido

C8_Witness ==
    /\ IsComplaint(dResult)
    /\ LET c1 == potential_status(status_patterns[1], dMarkdown.text)
           c2 == potential_status(status_patterns[2], dMarkdown.text)
       IN  /\ c1 # None /\ len(c1.text) >= StatusLimit
           /\ Qualifies(c2)
           /\ dResult.status = c2.text

(***************************************************************************)
(* The request: what the fetch provider may give, and the steps            *)
(***************************************************************************)
MaxLimit == 2
MaxPageLinks == 2

RequestSlug == <<"a", "b">>
PageLink(tail) == [label |-> <<LETTER>>, host |-> HOST, seg |-> RequestSlug, tail |-> tail]
PageLinks == {PageLink(<<"c", UNDERSCORE, "1">>), PageLink(<<"c", UNDERSCORE, "2">>),
              PageLink(<<"d">>)}
ListPages ==
    {Raised, NoMarkdown} \cup {Text(RenderLinks(ls)) : ls \in Strs(PageLinks, MaxPageLinks)}
DetailPages == {Raised, NoMarkdown, Text(<<>>), Text(Heading), Text(<<LETTER, NL>>)}
ProbePages ==
    {Raised, NoMarkdown, Text(<<>>), Text(<<"1", SP, DE, SP, "5">>),
     Text(<<"1", SP, DE, SP, "5", "1">>), Text(<<"1", SP, DE, SP, "0">>),
     Text(<<LETTER, "2", SP, SP, DE, NL, "0", "7", LETTER>>),
     Text(<<"1", DE, SP, "5">>), Text(<<"1", SP, DE, LETTER, "5">>),
     Text(<<"1", SP, DE, SP, LETTER, NL, "2", SP, DE, SP, "5", "0", SP, DE, SP, "1">>)}
FewSearchPages ==
    {Raised, Text(<<>>),
     Text(RenderSearchLinks(<<[label |-> <<"A", "B", "C">>, path |-> <<"n", "u", SLASH>>]>>)),
     Text(RenderSearchLinks(<<[label |-> <<"A", "B">>, path |-> <<"n", "u">>]>>))}
Keys == {None, Text(<<>>), Text(<<"k">>)}
Headers == {None, Text(<<>>), Text(<<"k">>), Text(<<"w">>), Text(<<NON_ASCII>>)}

ListRequest(n) == [kind |-> "list", page |-> n]
DetailRequest(u) == [kind |-> "detail", url |-> u]

\* What the logger records of one fetch: the error of _scrape_url_markdown
\* (line 73), the warnings of get_complaint_urls (line 132) and of
\* scrape_complaint (lines 231 and 296), or the progress line of a fetch that
\* gave something; LogNothing is a fetch after which the caller raised.
LogError == "Erro no Firecrawl"
LogNoUrls == "Nenhuma URL encontrada"
LogFound == "encontradas"
LogEmpty == "Markdown vazio"
LogNoTitle == "Titulo nao encontrado"
LogExtracted == "Processando"
LogNothing == "Firecrawl scraping"

\* The record of the fetch of one detail page by scrape_complaint.
DetailLog(fetched) ==
    IF fetched.kind = "ScraperError" THEN LogError
    ELSE IF fetched.kind = "NoneMarkdown" \/ fetched.text = <<>> THEN LogEmpty
    ELSE IF TitleMissing(extract_title(fetched.text)) THEN LogNoTitle
    ELSE LogExtracted

RequestStart ==
    /\ auth = Pending /\ page = 1 /\ urls = <<>> /\ requests = <<>> /\ idx = 1
    /\ log = <<>> /\ probe = Pending
    /\ complaints = <<>> /\ result = Pending /\ response = Pending

\* Depends(verify_api_key): an HTTPException is the response; any other
\* exception is the framework's 500.
VerifyApiKey ==
    /\ pc = "auth"
    /\ auth' = verify_api_key(apiKey, header)
    /\ IF auth'.kind = "pass"
       THEN /\ pc' = IF endpoint = "complaints" THEN "list" ELSE "search"
            /\ UNCHANGED response
       ELSE /\ pc' = "done"
            /\ response' = IF auth'.kind = "HTTPException"
                           THEN Response(auth'.code, None) ELSE Response(500, None)
    /\ UNCHANGED <<apiKey, endpoint, header, limit, page, urls, requests, log, probe, idx,
                   complaints, result, detailVars, urlsVars, searchVars>>

\* (a variant of PageCap that asks every page for the whole limit)
PageCap_WholeLimit(n, found) == n

\* The url count the extractor is asked for (line 129).
PageCap(n, found) == n - Len(found)

\* (a variant of FetchListPage in which a failed fetch is not caught)
FetchListPage_AbortOnError ==
    /\ pc = "list"
    /\ Len(urls) < limit
    /\ \E fetched \in ListPages :
        /\ requests' = Append(requests, ListRequest(page))
        /\ IF fetched.kind = "ScraperError"
           THEN /\ pc' = "raised" /\ result' = TypeError /\ log' = Append(log, LogError)
                /\ UNCHANGED <<urls, page>>
           ELSE IF fetched.kind = "NoneMarkdown"
           THEN /\ pc' = "raised" /\ result' = TypeError /\ log' = Append(log, LogNothing)
                /\ UNCHANGED <<urls, page>>
           ELSE LET page_urls == get_complaint_urls_from_markdown(
                                     fetched.text, RequestSlug, PageCap(limit, urls))
                IN  IF page_urls = <<>>
                    THEN /\ pc' = "collected" /\ log' = Append(log, LogNoUrls)
                         /\ UNCHANGED <<urls, page, result>>
                    ELSE /\ urls' = urls \o page_urls
                         /\ log' = Append(log, LogFound)
                         /\ page' = page + 1
                         /\ pc' = IF page' > MaxPages \/ Len(urls') >= limit
                                  THEN "collected" ELSE "list"
                         /\ UNCHANGED result
    /\ UNCHANGED <<apiKey, endpoint, header, limit, auth, probe, idx, complaints, response,
                   detailVars, urlsVars, searchVars>>

\* One pass of the while loop of get_complaint_urls (lines 124-146).
FetchListPage ==
    /\ pc = "list"
    /\ Len(urls) < limit
    /\ \E fetched \in ListPages :
        /\ requests' = Append(requests, ListRequest(page))
        /\ IF fetched.kind = "ScraperError"                     \* except ScraperError: break
           THEN /\ pc' = "collected" /\ log' = Append(log, LogError)
                /\ UNCHANGED <<urls, page, result>>
           ELSE IF fetched.kind = "NoneMarkdown"                \* re.findall raises TypeError
           THEN /\ pc' = "raised" /\ result' = TypeError /\ log' = Append(log, LogNothing)
                /\ UNCHANGED <<urls, page>>
           ELSE LET page_urls == get_complaint_urls_from_markdown(
                                     fetched.text, RequestSlug, PageCap(limit, urls))
                IN  IF page_urls = <<>>                          \* if not page_urls: break
                    THEN /\ pc' = "collected" /\ log' = Append(log, LogNoUrls)
                         /\ UNCHANGED <<urls, page, result>>
                    ELSE /\ urls' = urls \o page_urls
                         /\ log' = Append(log, LogFound)
                         /\ page' = page + 1
                         /\ pc' = IF page' > MaxPages \/ Len(urls') >= limit
                                  THEN "collected" ELSE "list"
                         /\ UNCHANGED result
    /\ UNCHANGED <<apiKey, endpoint, header, limit, auth, probe, idx, complaints, response,
                   detailVars, urlsVars, searchVars>>

\* return urls[:limit] (line 148)
ReturnUrls ==
    /\ pc = "collected"
    /\ urls' = FirstN(urls, limit)
    /\ pc' = "details"
    /\ UNCHANGED <<apiKey, endpoint, header, limit, auth, page, requests, log, probe, idx,
                   complaints, result, response, detailVars, urlsVars, searchVars>>

\* (a variant of ScrapeNext that puts each complaint before the earlier ones)
ScrapeNext_Prepend ==
    /\ pc = "details"
    /\ idx <= Len(urls)
    /\ \E fetched \in DetailPages :
        LET complaint == scrape_complaint(fetched, urls[idx])
        IN  /\ requests' = Append(requests, DetailRequest(urls[idx]))
            /\ log' = Append(log, DetailLog(fetched))
            /\ complaints' = IF complaint # None THEN <<complaint>> \o complaints
                             ELSE complaints
    /\ idx' = idx + 1
    /\ UNCHANGED <<apiKey, endpoint, header, limit, pc, auth, page, urls, probe, result,
                   response, detailVars, urlsVars, searchVars>>

\* One pass of the loop of get_complaints over urls (lines 344-348).
ScrapeNext ==
    /\ pc = "details"
    /\ idx <= Len(urls)
    /\ \E fetched \in DetailPages :
        LET complaint == scrape_complaint(fetched, urls[idx])
        IN  /\ requests' = Append(requests, DetailRequest(urls[idx]))
            /\ log' = Append(log, DetailLog(fetched))
            /\ complaints' = IF complaint # None THEN Append(complaints, complaint)
                             ELSE complaints
    /\ idx' = idx + 1
    /\ UNCHANGED <<apiKey, endpoint, header, limit, pc, auth, page, urls, probe, result,
                   response, detailVars, urlsVars, searchVars>>

\* The end of get_complaints: the page-count probe and the return (lines 351-361).
GetTotalPages ==
    /\ pc = "details"
    /\ idx > Len(urls)
    /\ \E fetched \in ProbePages :
        /\ probe' = fetched
        /\ result' = Returned(ComplaintsResponse(RequestSlug, complaints,
                                                 get_total_pages(fetched)))
    /\ pc' = "returned"
    /\ UNCHANGED <<apiKey, endpoint, header, limit, auth, page, urls, requests, log, idx,
                   complaints, response, detailVars, urlsVars, searchVars>>

\* get_company_complaints after get_complaints returned or raised (lines 133-148).
RespondComplaints ==
    /\ pc \in {"returned", "raised"}
    /\ endpoint = "complaints"
    /\ response' = get_company_complaints(result)
    /\ pc' = "done"
    /\ UNCHANGED <<apiKey, endpoint, header, limit, auth, page, urls, requests, log, probe,
                   idx, complaints, result, detailVars, urlsVars, searchVars>>

\* search_companies: search_company and the response (lines 171-189).
SearchCompanies ==
    /\ pc = "search"
    /\ \E fetched \in FewSearchPages :
        /\ result' = Returned(search_company(fetched))
        /\ response' = search_companies(result')
    /\ pc' = "done"
    /\ UNCHANGED <<apiKey, endpoint, header, limit, auth, page, urls, requests, log, probe,
                   idx, complaints, detailVars, urlsVars, searchVars>>

(***************************************************************************)
(* Spec: one request to a protected endpoint                               *)
(***************************************************************************)
Init ==
    /\ apiKey \in Keys
    /\ header \in Headers
    /\ endpoint \in {"complaints", "search"}
    /\ limit \in 1..MaxLimit
    /\ pc = "auth"
    /\ RequestStart
    /\ DetailIdle /\ UrlsIdle /\ SearchIdle

Next ==
    \/ VerifyApiKey
    \/ FetchListPage
    \/ ReturnUrls
    \/ ScrapeNext
    \/ GetTotalPages
    \/ RespondComplaints
    \/ SearchCompanies

Spec == Init /\ [][Next]_vars

(***************************************************************************)
(* SpecPagination: one call of get_complaint_urls, with the limits that    *)
(* let it reach its page ceiling                                           *)
(***************************************************************************)
InitPagination ==
    /\ apiKey = None /\ header = None /\ endpoint = "none"
    /\ limit \in (1..MaxLimit) \cup {MaxPages + 1}
    /\ pc = "list"
    /\ RequestStart
    /\ DetailIdle /\ UrlsIdle /\ SearchIdle

NextPagination == FetchListPage \/ ReturnUrls

SpecPagination == InitPagination /\ [][NextPagination]_vars /\ WF_vars(NextPagination)

(***************************************************************************)
(* SpecComplaints: one call of get_complaints                              *)
(***************************************************************************)
MaxCollect == 3

InitComplaints ==
    /\ apiKey = None /\ header = None /\ endpoint = "none"
    /\ limit \in 1..MaxCollect
    /\ pc = "list"
    /\ RequestStart
    /\ DetailIdle /\ UrlsIdle /\ SearchIdle

NextComplaints == FetchListPage \/ ReturnUrls \/ ScrapeNext \/ GetTotalPages

SpecComplaints == InitComplaints /\ [][NextComplaints]_vars

(***************************************************************************)
(* Claims about get_complaint_urls_from_markdown (SpecUrls)                *)
(***************************************************************************)
RECURSIVE Dedup(_)
\* A sequence without its repetitions, in the order of first occurrence.
Dedup(seq) ==
    IF seq = <<>> THEN <<>>
    ELSE LET front == Dedup(SubSeq(seq, 1, Len(seq) - 1))
         IN  IF InSeq(seq[Len(seq)], front) THEN front ELSE Append(front, seq[Len(seq)])

Map(seq, F(_)) == [i \in 1..Len(seq) |-> F(seq[i])]

\* The urls of the links that lie under the namespace of the company and
\* contain an underscore, in the order of the markdown.
UnderNamespace(l) == l.host = HOST /\ l.seg = uSlug
IsComplaintLink(l) == UnderNamespace(l) /\ Contains(LinkUrl(l), UNDERSCORE)
ComplaintUrls == Dedup(Map(SelectSeq(uLinks, IsComplaintLink), LinkUrl))

\* C1: the extractor returns the first min(N, K) of the N distinct complaint
\* urls of the company in the markdown, in the order of their first occurrence.
C1_FirstDistinctUrls ==
    uResult.kind = "returned" => uResult.value = FirstN(ComplaintUrls, uLimit)

\* The same for the slugs that hold no regular-expression metacharacter.
C1_LiteralSlug ==
    (uResult.kind = "returned" /\ ~Contains(uSlug, DOT)) =>
        uResult.value = FirstN(ComplaintUrls, uLimit)

(***************************************************************************)
(* Claims about search_company (SpecSearch)                                *)
(***************************************************************************)
\* A link to a company page: its path is a slug, or a slug and one slash.
SlugOf(l) ==
    IF l.path # <<>> /\ l.path[Len(l.path)] = SLASH
    THEN SubSeq(l.path, 1, Len(l.path) - 1) ELSE l.path
IsValidMatch(l) ==
    /\ SlugOf(l) # <<>>
    /\ ~Contains(SlugOf(l), SLASH)
    /\ ~SlugInvalid(SlugOf(l))
    /\ ~NameInvalid(strip(l.label))

\* The valid (slug, label) matches of the page, in page order.
ValidMatches ==
    IF sLinks.kind # "returned" THEN <<>>
    ELSE LET Pair(l) == [slug |-> SlugOf(l), name |-> strip(l.label)]
         IN  Map(SelectSeq(sLinks.value, IsValidMatch), Pair)

\* The first match of a slug, and the first of its matches with the longest label.
FirstIdx(slug) ==
    CHOOSE i \in 1..Len(ValidMatches) :
        /\ ValidMatches[i].slug = slug
        /\ \A j \in 1..(i - 1) : ValidMatches[j].slug # slug
BestIdx(slug) ==
    CHOOSE i \in 1..Len(ValidMatches) :
        /\ ValidMatches[i].slug = slug
        /\ \A j \in 1..Len(ValidMatches) :
                ValidMatches[j].slug = slug =>
                    \/ len(ValidMatches[j].name) < len(ValidMatches[i].name)
                    \/ (len(ValidMatches[j].name) = len(ValidMatches[i].name) /\ i <= j)
MatchedSlugs == {ValidMatches[i].slug : i \in 1..Len(ValidMatches)}

\* C4: no slug is returned twice; every slug returned has a valid match, and
\* its name is the longest label of its valid matches (the earliest of them
\* when several are as long).
C4_LongestLabelPerSlug ==
    sResult.kind = "returned" =>
        LET out == sResult.value
        IN  /\ \A i, j \in 1..Len(out) : out[i].slug = out[j].slug => i = j
            /\ \A i \in 1..Len(out) :
                    /\ out[i].slug \in MatchedSlugs
                    /\ out[i].name = ValidMatches[BestIdx(out[i].slug)].name

C4_Witness ==
    /\ sResult.kind = "returned"
    /\ \E i \in 1..Len(sResult.value) :
            LET slug == sResult.value[i].slug
            IN  /\ FirstIdx(slug) < BestIdx(slug)
                /\ \E j \in (BestIdx(slug) + 1)..Len(ValidMatches) :
                        /\ ValidMatches[j].slug = slug
                        /\ ValidMatches[j].name # ValidMatches[BestIdx(slug)].name
                        /\ len(ValidMatches[j].name) = len(ValidMatches[BestIdx(slug)].name)

\* The slugs of the valid matches in the order of Idx, each once.
SlugsBy(Idx(_)) ==
    LET IsAt(i) == Idx(ValidMatches[i].slug) = i
        Slug(i) == ValidMatches[i].slug
    IN  Map(SelectSeq([i \in 1..Len(ValidMatches) |-> i], IsAt), Slug)
OutSlugs == [i \in 1..Len(sResult.value) |-> sResult.value[i].slug]

\* C5 as stated: at most 10 companies, in the order in which the matches that
\* give the slugs their final (longest) labels come in the page.
C5_OrderOfLongestLabel ==
    sResult.kind = "returned" =>
        /\ Len(sResult.value) <= SearchLimit
        /\ OutSlugs = FirstN(SlugsBy(BestIdx), SearchLimit)

\* C5 as amended: at most 10 companies, the first 10 slugs in the order of
\* the first valid match of each slug; a later, longer label changes the name
\* of its slug and not its place.
C5_OrderOfFirstMatch ==
    sResult.kind = "returned" =>
        /\ Len(sResult.value) <= SearchLimit
        /\ OutSlugs = FirstN(SlugsBy(FirstIdx), SearchLimit)

C5_Witness ==
    /\ sResult.kind = "returned"
    /\ Len(sResult.value) = SearchLimit
    /\ Cardinality(MatchedSlugs) > SearchLimit
    /\ FirstIdx(OutSlugs[1]) < BestIdx(OutSlugs[1])

(***************************************************************************)
(* Claims about the request (Spec) and get_complaint_urls (SpecPagination) *)
(***************************************************************************)
Handled == pc # "done" \/ result # Pending

\* C2: a request to /api/complaints that passed the key check is answered 404
\* when no complaint was extracted, 200 with the assembled result when one
\* was, and 500 with no result when get_complaints raised.
C2_ComplaintsStatusCodes ==
    (pc = "done" /\ endpoint = "complaints" /\ auth.kind = "pass") =>
        /\ result = TypeError => response = Response(500, None)
        /\ (result.kind = "returned" /\ complaints = <<>>) => response = Response(404, None)
        /\ (result.kind = "returned" /\ complaints # <<>>) =>
                /\ response = Response(200, result.value)
                /\ response.body.complaints = complaints

C2_Witness ==
    /\ pc = "done" /\ endpoint = "complaints" /\ auth.kind = "pass"
    /\ urls # <<>> /\ complaints = <<>>
    /\ response.code = 404

C9_PagesAndCountBounded ==
    /\ Len(requests) <= MaxPages
    /\ \A i \in 1..Len(requests) : requests[i] = ListRequest(i)
    /\ Len(urls) <= limit
C9_BoundedPagination ==
    [](C9_PagesAndCountBounded) /\ <>(pc \in {"details", "raised"})

C9_Witness ==
    /\ pc = "details"
    /\ limit > MaxPages
    /\ Len(requests) = MaxPages
    /\ Len(urls) < limit

\* C10: the list get_complaint_urls holds never has the same url twice.
C10_NoUrlTwice ==
    \A i, j \in 1..Len(urls) : urls[i] = urls[j] => i = j

(***************************************************************************)
(* C11: fetch failures inside one call of get_complaints                   *)
(***************************************************************************)
ListCount == Cardinality({i \in 1..Len(requests) : requests[i].kind = "list"})
DetailCount == Cardinality({i \in 1..Len(requests) : requests[i].kind = "detail"})
SomeFetchFailed == \E i \in 1..Len(log) : log[i] = LogError

\* The urls of the detail fetches that neither failed nor came back empty or
\* without a title, in the order of the fetches.
ExtractedUrls ==
    LET F[i \in 0..Len(requests)] ==
            IF i = 0 THEN <<>>
            ELSE IF requests[i].kind = "detail" /\ log[i] = LogExtracted
                 THEN Append(F[i - 1], requests[i].url)
                 ELSE F[i - 1]
    IN  F[Len(requests)]

\* Every unit is fetched once: the list pages 1, 2, ... in turn, then one
\* detail fetch for each collected url, in the order of urls.
C11_FetchedOnce ==
    /\ Len(log) = Len(requests)
    /\ Len(requests) = ListCount + DetailCount
    /\ \A i \in 1..ListCount : requests[i] = ListRequest(i)
    /\ \A i \in 1..DetailCount : requests[ListCount + i] = DetailRequest(urls[i])
    /\ pc = "details" => DetailCount = idx - 1
    /\ pc = "returned" => DetailCount = Len(urls)

\* A failed fetch never makes the call raise; a failed list fetch is the last
\* list fetch; the complaints are those of the detail fetches that gave one.
C11_FailureIsolated ==
    /\ SomeFetchFailed => (pc # "raised" /\ result # TypeError)
    /\ \A i \in 1..Len(log) :
          (log[i] = LogError /\ requests[i].kind = "list") => i = ListCount
    /\ [i \in 1..Len(complaints) |-> complaints[i].url] = ExtractedUrls

\* The step of a failed list fetch, and the return of get_complaint_urls,
\* leave the urls collected so far as they are.
C11_FailureKeepsUrls ==
    /\ (/\ Len(log') = Len(log) + 1
        /\ log'[Len(log')] = LogError
        /\ requests'[Len(requests')].kind = "list") => (urls' = urls /\ pc' = "collected")
    /\ (pc = "collected" /\ pc' = "details") => urls' = urls

\* C11: within one call of get_complaints no fetch is made again after it
\* failed and no failed fetch makes the call raise: a detail fetch that fails
\* or gives empty content leaves out that complaint alone, every other
\* collected url being fetched and extracted, and a list fetch that fails is
\* the last list fetch, the urls of the earlier pages being kept and fetched.
C11_FailuresIsolatedNoRetry ==
    /\ [](C11_FetchedOnce /\ C11_FailureIsolated)
    /\ [][C11_FailureKeepsUrls]_vars

\* A call that returned after the second list fetch failed and the first of
\* its two detail fetches failed, the second url being extracted.
C11_Witness ==
    /\ pc = "returned" /\ result.kind = "returned"
    /\ Len(urls) = 2 /\ ListCount = 2
    /\ log = <<LogFound, LogError, LogError, LogExtracted>>
    /\ Len(complaints) = 1 /\ complaints[1].url = urls[2]

(***************************************************************************)
(* C12: the page-count probe                                               *)
(***************************************************************************)
IsDigit(c) == c \in {"0", "1", "2", "5", "7"}

\* The end of the longest run of tokens of one kind that starts at i.
DigitsEnd(s, i) ==
    CHOOSE e \in i..(Len(s) + 1) :
        /\ \A k \in i..(e - 1) : IsDigit(s[k])
        /\ e = Len(s) + 1 \/ ~IsDigit(s[e])
SpaceEnd(s, i) ==
    CHOOSE e \in i..(Len(s) + 1) :
        /\ \A k \in i..(e - 1) : s[k] \in Whitespace
        /\ e = Len(s) + 1 \/ s[e] \notin Whitespace

\* A marker "X de Y" starts at a: digits, white space, "de", white space, digits.
MarkerAt(s, a) ==
    LET b == DigitsEnd(s, a)
        c == IF b <= Len(s) THEN SpaceEnd(s, b) ELSE b
        d == IF c < Len(s) THEN SpaceEnd(s, c + 1) ELSE c + 1
    IN  /\ b > a /\ c > b /\ c <= Len(s) /\ s[c] = DE
        /\ d > c + 1 /\ d <= Len(s) /\ IsDigit(s[d])
\* The Y of the marker that starts at a.
MarkerY(s, a) ==
    LET b == DigitsEnd(s, a)
        c == SpaceEnd(s, b)
        d == SpaceEnd(s, c + 1)
    IN  int(SubSeq(s, d, DigitsEnd(s, d) - 1))
MarkerStarts(s) == {a \in 1..Len(s) : MarkerAt(s, a)}
FirstMarker(s) == CHOOSE a \in MarkerStarts(s) : \A b \in MarkerStarts(s) : a <= b

ProbeFailed == probe.kind \in {"ScraperError", "NoneMarkdown"}
ProbeFoundMarker == probe.kind = "str" /\ MarkerStarts(probe.text) # {}
TotalPages == result.value.company.total_complaints \div 10

\* What the call returns after the probe: the complaints gathered before it,
\* their count, and ten times a page count that is min(Y, 50) for a first
\* marker with Y >= 1 and 1 when the fetch failed or the page has no marker.
C12_ProbeResult ==
    pc = "returned" =>
        /\ result.kind = "returned"
        /\ result.value.complaints = complaints
        /\ result.value.total_returned = Len(complaints)
        /\ result.value.company.total_complaints = 10 * TotalPages
        /\ (ProbeFailed \/ ~ProbeFoundMarker) => TotalPages = 1
        /\ (ProbeFoundMarker /\ MarkerY(probe.text, FirstMarker(probe.text)) >= 1) =>
              /\ TotalPages = Min(MarkerY(probe.text, FirstMarker(probe.text)), 50)
              /\ TotalPages \in 1..50

\* The step of the probe: whatever its fetch gives, the call returns, with
\* the complaints it held before the probe, and nothing else of the call
\* changes.
C12_ProbeStep ==
    (probe = Pending /\ probe' # Pending) =>
        /\ pc' = "returned" /\ result'.kind = "returned"
        /\ result'.value.complaints = complaints
        /\ result'.value.total_returned = Len(complaints)
        /\ UNCHANGED <<urls, complaints, requests, log, idx>>

\* C12: the page-count probe never changes which complaints are returned and
\* never fails the call: it gives min(Y, 50), a value from 1 to 50, when a
\* marker "X de Y" with Y >= 1 is found, and 1 when no marker is found or
\* the fetch fails; whatever the probe gives, complaints and total_returned
\* are those gathered before it, and total_complaints is ten times its value.
C12_ProbeInformationalOnly ==
    /\ []C12_ProbeResult
    /\ [][C12_ProbeStep]_vars

\* A call that returned complaints after a probe whose marker is over the cap.
C12_Witness ==
    /\ pc = "returned" /\ complaints # <<>>
    /\ probe = Text(<<"1", SP, DE, SP, "5", "1">>)
    /\ result.value.company.total_complaints = 500

(***************************************************************************)
(* C13: the response of get_complaints                                     *)
(***************************************************************************)
\* sub is seq with some of its entries left out.
IsSubsequence(sub, seq) ==
    \E f \in [1..Len(sub) -> 1..Len(seq)] :
        /\ \A i, j \in 1..Len(sub) : i < j => f[i] < f[j]
        /\ \A i \in 1..Len(sub) : sub[i] = seq[f[i]]

ResponseUrls == [i \in 1..Len(result.value.complaints) |-> result.value.complaints[i].url]
DetailFetches ==
    [i \in 1..DetailCount |-> requests[Len(requests) - DetailCount + i].url]

\* C13: for every call of get_complaints with limit >= 1 the response has
\* total_returned = the number of its complaints <= the number of collected
\* urls <= limit, the urls of its complaints are a subsequence of the
\* collected urls, and each collected url was fetched once, in order.
C13_ResponseCountAndOrder ==
    (pc = "returned" /\ limit >= 1) =>
        /\ result.kind = "returned"
        /\ result.value.total_returned = Len(result.value.complaints)
        /\ Len(result.value.complaints) <= Len(urls)
        /\ Len(urls) <= limit
        /\ IsSubsequence(ResponseUrls, urls)
        /\ DetailFetches = urls

\* A response with the first and the third of three collected urls, the
\* second having given no complaint.
C13_Witness ==
    /\ pc = "returned" /\ limit = 3 /\ Len(urls) = 3
    /\ urls[1] # urls[2]
    /\ result.value.total_returned = 2
    /\ ResponseUrls = <<urls[1], urls[3]>>
    /\ log[Len(log) - 1] # LogExtracted

====
